---- MODULE Spec2Model ----
(***************************************************************************)
(* Model of the OAuth credential manager of youtube-mcp-enhanced           *)
(* (OAuthService, src/unnamed/part_000) and of the callers that drive it   *)
(* (PlaylistService, src/src/services/playlist.ts; the youtube_startAuth   *)
(* tool, src/src/server-utils.ts).                                         *)
(*                                                                         *)
(* The process is a single-threaded Node event loop: every action below    *)
(* is one run-to-completion step, and an `await` splits a function into    *)
(* the step before it and the step that resumes after it.                  *)
(***************************************************************************)
EXTENDS Integers, FiniteSets, Sequences, TLC

\* ---------------------------------------------------------------- bounds
MaxFlows == 2        \* authenticateWithBrowser() calls in one process lifetime
MaxTime == 3         \* Date.now() ranges over 1..MaxTime
MaxReq == 3          \* /callback requests carrying a code sent to the process
MaxOther == 1        \* requests on other paths the process leaves unanswered
Lifetime == 1        \* expires_in of a token the identity provider issues

\* ---------------------------------------------------------------- values
None == "none"
StoredAccessTokens == {"A1"}      \* in the record found at start
AccessTokens == {"A2"}            \* issued by the provider during the run
StoredRefreshTokens == {"R1"}     \* in the record found at start
IssuedRefreshTokens == {"R2"}     \* issued by the provider during the run
NoExpiry == -1       \* expiry_date absent (undefined)
Flows == 1..MaxFlows
Times == 1..MaxTime

\* A token object as the code handles it: the parsed file, the client's
\* credentials, a provider response.  kind "null" is JavaScript null.
Token(a, r, e) == [kind |-> "token", at |-> a, rt |-> r, exp |-> e]
Null == [kind |-> "null", at |-> None, rt |-> None, exp |-> NoExpiry]
EmptyCreds == [kind |-> "token", at |-> None, rt |-> None, exp |-> NoExpiry]

\* The token file on disk: absent, present but unreadable (readFileSync
\* throws), present with content JSON.parse rejects, or the JSON of a token.
FileOf(kd, a, r, e) == [kind |-> kd, at |-> a, rt |-> r, exp |-> e]
Missing == FileOf("missing", None, None, NoExpiry)
Unreadable == FileOf("unreadable", None, None, NoExpiry)
Corrupt == FileOf("corrupt", None, None, NoExpiry)

\* JSON.stringify(token, null, 2): the text written for a token object.
Stringify(t) == FileOf("json", t.at, t.rt, t.exp)

VARIABLES
    now,          \* Date.now()
    tokenFile,    \* content of TOKEN_PATH
    creds,        \* this.oauth2Client.credentials
    crashed,      \* the process died of an uncaught exception
    port,         \* flow whose server holds port 8888, 0 when free
    started,      \* started[f]: authenticateWithBrowser() call f was made
    listening,    \* listening[f]: the http.Server of flow f is bound
    result,       \* result[f]: state of the promise of flow f
    timerArmed,   \* timerArmed[f]: the setTimeout of flow f has not fired yet
    sent,         \* sent[f]: getToken(code) calls made by the handler of flow f
    inflight,     \* inflight[f]: handler instances suspended in getToken(code)
    status,       \* status[f]: last HTTP status the handler of flow f wrote, 0 if none
    closes,       \* closes[f]: server.close() calls made on the server of flow f
    hung,         \* requests the handler left without a response
    gacPc,        \* position of the getAuthenticatedClient() call
    gacLoaded,    \* its local `token`
    gacNow,       \* the Date.now() it read
    gacResult,    \* what the last getAuthenticatedClient() returned
    hvcResult,    \* what the last hasValidCredentials() returned
    hvcPrev,      \* what the hasValidCredentials() call before it returned
    hvcRun,       \* hasValidCredentials() calls since the last saveToken(), up to 2
    xcPc,         \* position of the exchangeCode() call
    xcResult,     \* what the last exchangeCode() returned
    configured,   \* OAUTH_CLIENT_ID and OAUTH_CLIENT_SECRET are both non-empty
    psOp,         \* last PlaylistService operation that ended in initializeOAuth's throw
    psVideos,     \* number of videoIds it was given
    psResult,     \* how it ended
    psFailed,     \* length of the `failed` list it returned
    vsOp,         \* last VideoService operation
    vsIn,         \* the items the YouTube API returned to it
    vsOut,        \* what it returned
    batch         \* the addVideosToPlaylist() call: its position, input and results

flowVars == <<port, started, listening, result, timerArmed, sent, inflight, status, closes, hung>>
gacVars == <<gacPc, gacLoaded, gacNow, gacResult>>
xcVars == <<xcPc, xcResult>>
hvcVars == <<hvcResult, hvcPrev, hvcRun>>
psVars == <<configured, psOp, psVideos, psResult, psFailed>>
videoVars == <<vsOp, vsIn, vsOut>>
vars == <<now, tokenFile, creds, crashed, flowVars, gacVars, hvcVars, xcVars, psVars, videoVars, batch>>

\* ------------------------------------------------------- pure helpers

\* loadToken() without the catch of the parse error taking effect: unparsable
\* content comes back as an (empty) token object.
LoadTokenLenient(file) ==
    IF file.kind \in {"json", "corrupt"} THEN Token(file.at, file.rt, file.exp) ELSE Null

\* loadToken(): null unless the file exists, reads and parses.
LoadToken(file) ==
    IF file.kind = "json" THEN Token(file.at, file.rt, file.exp) ELSE Null

\* Outcomes of fs.writeFileSync(TOKEN_PATH, text): written; failed before the
\* file was opened for writing (EACCES, EROFS); failed after the open with
\* flag 'w' truncated it (ENOSPC, EIO), which leaves a partial text.
WriteOutcomes == {"ok", "eopen", "ewrite"}

\* saveToken(token): the file after the call; the error, if any, is swallowed.
SaveToken(file, token, w) ==
    CASE w = "ok" -> Stringify(token)
      [] w = "eopen" -> file
      [] w = "ewrite" -> Corrupt

\* The expiry test with the comparison turned around.
ExpiredReversed(token, t) == token.exp # NoExpiry /\ token.exp # 0 /\ token.exp > t

\* The expiry test written with <= instead of <.
ExpiredInclusive(token, t) == token.exp # NoExpiry /\ token.exp # 0 /\ token.exp <= t

\* token.expiry_date && token.expiry_date < Date.now()
Expired(token, t) == token.exp # NoExpiry /\ token.exp # 0 /\ token.exp < t

\* A settable result cell instead of a promise: the last call wins.
ResolveLastWins(r, v) == v

\* resolve(v) of the flow's promise: only the first call settles it.
Resolve(r, v) == IF r = "pending" THEN v ELSE r

\* What the identity provider can answer to getToken(code).
CodeResponses ==
    {Token(a, r, now + Lifetime) : a \in AccessTokens, r \in IssuedRefreshTokens \cup {None}}

\* oauth2Client.refreshAccessToken(): the provider's answer carries access
\* token a; the client stamps the refresh token of its current credentials on
\* it (google-auth-library sets tokens.refresh_token from this.credentials)
\* and computes expiry_date from expires_in.
RefreshedCredentials(a) == Token(a, creds.rt, now + Lifetime)

\* ---------------------------------------------------------------- Init
InitFiles ==
    {Missing, Unreadable, Corrupt}
        \cup {FileOf("json", a, r, e) : a \in StoredAccessTokens,
                                        r \in StoredRefreshTokens \cup {None},
                                        e \in {NoExpiry} \cup Times}

\* The files a run of authorization flows is started over: none, an
\* unparsable one, and a record of an earlier authorization.
AuthInitFiles ==
    {Missing, Corrupt}
        \cup {FileOf("json", a, r, NoExpiry) : a \in StoredAccessTokens, r \in StoredRefreshTokens}

\* isOAuthConfigured(): both environment values are non-empty.
IsOAuthConfigured == configured

\* initializeOAuth() with no check of the environment values.
RunningUnchecked == ~crashed

\* The process is alive and initializeOAuth() hands out the OAuthService: every
\* operation of the OAuthService is reached through it.
Running == ~crashed /\ IsOAuthConfigured

Init ==
    /\ now = 1
    /\ tokenFile \in InitFiles
    /\ creds = EmptyCreds
    /\ crashed = FALSE
    /\ port = 0
    /\ started = [f \in Flows |-> FALSE]
    /\ listening = [f \in Flows |-> FALSE]
    /\ result = [f \in Flows |-> "none"]
    /\ timerArmed = [f \in Flows |-> FALSE]
    /\ sent = [f \in Flows |-> 0]
    /\ inflight = [f \in Flows |-> 0]
    /\ status = [f \in Flows |-> 0]
    /\ closes = [f \in Flows |-> 0]
    /\ hung = 0
    /\ gacPc = "idle"
    /\ gacLoaded = Null
    /\ gacNow = 0
    /\ gacResult = "none"
    /\ hvcResult = "none"
    /\ hvcPrev = "none"
    /\ hvcRun = 0
    /\ xcPc = "idle"
    /\ xcResult = "none"
    /\ configured \in BOOLEAN
    /\ psOp = "none"
    /\ psVideos = 0
    /\ psResult = "none"
    /\ psFailed = 0
    /\ vsOp = "none"
    /\ vsIn = << >>
    /\ vsOut = << >>
    /\ batch = [pc |-> "idle", ids |-> << >>, outcomes |-> << >>,
                success |-> << >>, failed |-> << >>]

\* ------------------------------------------------------------- actions

\* The wall clock advances.
Tick ==
    /\ ~crashed
    /\ now < MaxTime
    /\ now' = now + 1
    /\ UNCHANGED <<batch, psVars, videoVars, tokenFile, creds, crashed, flowVars, gacVars, hvcVars, xcVars>>

\* A hasValidCredentials() that also looks at the expiry of the record.
HasValidCredentialsChecksExpiry ==
    /\ Running
    /\ hvcResult' = IF LoadToken(tokenFile) # Null /\ tokenFile.exp >= now
                         THEN "true" ELSE "false"
    /\ hvcPrev' = hvcResult
    /\ hvcRun' = IF hvcRun < 2 THEN hvcRun + 1 ELSE hvcRun
    /\ UNCHANGED <<batch, psVars, videoVars, now, tokenFile, creds, crashed, flowVars, gacVars, xcVars>>

\* hasValidCredentials(): token !== null.
HasValidCredentials ==
    /\ Running
    /\ hvcResult' = IF LoadToken(tokenFile) # Null THEN "true" ELSE "false"
    /\ hvcPrev' = hvcResult
    /\ hvcRun' = IF hvcRun < 2 THEN hvcRun + 1 ELSE hvcRun
    /\ UNCHANGED <<batch, psVars, videoVars, now, tokenFile, creds, crashed, flowVars, gacVars, xcVars>>

\* getAuthenticatedClient() up to its return or its await.
GacCall ==
    /\ Running
    /\ gacPc = "idle"
    /\ LET token == LoadToken(tokenFile) IN
        /\ gacLoaded' = token
        /\ gacNow' = now
        /\ IF token = Null
             THEN /\ gacPc' = "idle"
                  /\ gacResult' = "null"
                  /\ creds' = creds
             ELSE /\ creds' = token
                  /\ IF Expired(token, now)
                       THEN /\ gacPc' = "refreshing"
                            /\ gacResult' = "none"
                       ELSE /\ gacPc' = "idle"
                            /\ gacResult' = "client"
    /\ UNCHANGED <<batch, psVars, videoVars, now, tokenFile, crashed, flowVars, hvcVars, xcVars>>

\* refreshAccessToken() resolved: saveToken(credentials); setCredentials.
\* The client rejects the call when the credentials set from the loaded
\* record carry no refresh token, so only such a record can be refreshed.
GacRefreshOk(a, w) ==
    /\ Running
    /\ gacPc = "refreshing"
    /\ gacLoaded.rt # None
    /\ LET credentials == RefreshedCredentials(a) IN
        /\ tokenFile' = SaveToken(tokenFile, credentials, w)
        /\ creds' = credentials
    /\ gacPc' = "idle"
    /\ gacResult' = "client"
    /\ hvcRun' = 0
    /\ UNCHANGED <<batch, psVars, videoVars, now, crashed, flowVars, gacLoaded, gacNow, hvcResult, hvcPrev, xcVars>>

\* A catch block that also drops the record that could not be refreshed.
GacRefreshFailClears ==
    /\ Running
    /\ gacPc = "refreshing"
    /\ gacPc' = "idle"
    /\ gacResult' = "null"
    /\ tokenFile' = Missing
    /\ UNCHANGED <<batch, psVars, videoVars, now, creds, crashed, flowVars, gacLoaded, gacNow, hvcVars, xcVars>>

\* refreshAccessToken() rejected: the catch block returns null.
GacRefreshFail ==
    /\ Running
    /\ gacPc = "refreshing"
    /\ gacPc' = "idle"
    /\ gacResult' = "null"
    /\ UNCHANGED <<batch, psVars, videoVars, now, tokenFile, creds, crashed, flowVars, gacLoaded, gacNow, hvcVars, xcVars>>

\* A close() that leaves the server accepting requests.
CloseListeningNoop(l, f) == l

\* A close() that frees port 8888 whichever server holds it.
ReleasePortAny(p, f) == 0

\* A close() that keeps the port bound.
ReleasePortNoop(p, f) == p

\* server.close() on the server of flow f: it stops listening and, if it
\* held the port, the port is free again.
CloseListening(l, f) == [l EXCEPT ![f] = FALSE]
ReleasePort(p, f) == IF p = f THEN 0 ELSE p

\* server.close(); resolve(v): the tail of every terminal path of a flow.
CloseAndResolve(f, v) ==
    /\ listening' = CloseListening(listening, f)
    /\ port' = ReleasePort(port, f)
    /\ closes' = [closes EXCEPT ![f] = @ + 1]
    /\ result' = [result EXCEPT ![f] = Resolve(@, v)]

\* Flows are numbered in the order the calls are made.
NextFlow(f) == ~started[f] /\ \A g \in Flows : g < f => started[g]

\* authenticateWithBrowser(): createServer, listen(8888) binds, setTimeout.
StartAuth(f) ==
    /\ Running
    /\ NextFlow(f)
    /\ port = 0
    /\ port' = f
    /\ started' = [started EXCEPT ![f] = TRUE]
    /\ listening' = [listening EXCEPT ![f] = TRUE]
    /\ result' = [result EXCEPT ![f] = "pending"]
    /\ timerArmed' = [timerArmed EXCEPT ![f] = TRUE]
    /\ UNCHANGED <<batch, psVars, videoVars, now, tokenFile, creds, crashed, sent, inflight, status, closes, hung,
                   gacVars, hvcVars, xcVars>>

\* authenticateWithBrowser() while the port is taken: listen(8888) fails with
\* EADDRINUSE, the server emits 'error', no 'error' listener is registered,
\* so the event is thrown as an uncaught exception and the process exits.
StartAuthBindFail(f) ==
    /\ Running
    /\ NextFlow(f)
    /\ port # 0
    /\ started' = [started EXCEPT ![f] = TRUE]
    /\ result' = [result EXCEPT ![f] = "pending"]
    /\ timerArmed' = [timerArmed EXCEPT ![f] = TRUE]
    /\ crashed' = TRUE
    /\ UNCHANGED <<batch, psVars, videoVars, now, tokenFile, creds, port, listening, sent, inflight, status, closes,
                   hung, gacVars, hvcVars, xcVars>>

\* A handler that treats a request on another path as a failed callback:
\* 404, close, resolve(false).
RequestOtherPathRejects(f) ==
    /\ Running
    /\ listening[f]
    /\ hung < MaxOther
    /\ hung' = hung + 1
    /\ status' = [status EXCEPT ![f] = 404]
    /\ CloseAndResolve(f, "false")
    /\ UNCHANGED <<batch, psVars, videoVars, now, tokenFile, creds, crashed, started, timerArmed, sent,
                   inflight, gacVars, hvcVars, xcVars>>

\* A request whose pathname is not /callback: the handler does nothing, not
\* even answer.
RequestOtherPath(f) ==
    /\ Running
    /\ listening[f]
    /\ hung < MaxOther
    /\ hung' = hung + 1
    /\ UNCHANGED <<batch, psVars, videoVars, now, tokenFile, creds, crashed, port, started, listening, result,
                   timerArmed, sent, inflight, status, closes, gacVars, hvcVars, xcVars>>

\* GET /callback without a code: 400, close, resolve(false).  A request
\* reaches the handler only while the server is listening.
CallbackNoCode(f) ==
    /\ Running
    /\ listening[f]
    /\ status' = [status EXCEPT ![f] = 400]
    /\ CloseAndResolve(f, "false")
    /\ UNCHANGED <<batch, psVars, videoVars, now, tokenFile, creds, crashed, started, timerArmed, sent, inflight,
                   hung, gacVars, hvcVars, xcVars>>

\* The number of getToken(code) calls the handlers of all flows have made.
RECURSIVE SentUpTo(_)
SentUpTo(f) == IF f = 0 THEN 0 ELSE sent[f] + SentUpTo(f - 1)
TotalSent == SentUpTo(MaxFlows)

\* GET /callback?code=...: the handler calls getToken(code) and suspends.
CallbackWithCode(f) ==
    /\ Running
    /\ listening[f]
    /\ TotalSent < MaxReq
    /\ sent' = [sent EXCEPT ![f] = @ + 1]
    /\ inflight' = [inflight EXCEPT ![f] = @ + 1]
    /\ UNCHANGED <<batch, psVars, videoVars, now, tokenFile, creds, crashed, port, started, listening, result,
                   timerArmed, status, closes, hung, gacVars, hvcVars, xcVars>>

\* getToken(code) resolved in a handler of flow f: setCredentials, saveToken,
\* 200, close, resolve(true).
ExchangeOk(f, tokens, w) ==
    /\ Running
    /\ inflight[f] > 0
    /\ inflight' = [inflight EXCEPT ![f] = @ - 1]
    /\ creds' = tokens
    /\ tokenFile' = SaveToken(tokenFile, tokens, w)
    /\ status' = [status EXCEPT ![f] = 200]
    /\ CloseAndResolve(f, "true")
    /\ hvcRun' = 0
    /\ UNCHANGED <<batch, psVars, videoVars, now, crashed, started, timerArmed, sent, hung, gacVars, hvcResult, hvcPrev, xcVars>>

\* getToken(code) rejected in a handler of flow f: the catch block answers
\* 500, closes and resolves false.
ExchangeFail(f) ==
    /\ Running
    /\ inflight[f] > 0
    /\ inflight' = [inflight EXCEPT ![f] = @ - 1]
    /\ status' = [status EXCEPT ![f] = 500]
    /\ CloseAndResolve(f, "false")
    /\ UNCHANGED <<batch, psVars, videoVars, now, tokenFile, creds, crashed, started, timerArmed, sent, hung,
                   gacVars, hvcVars, xcVars>>

\* The setTimeout callback of flow f: close, resolve(false).  The timer is
\* never cleared, so it fires whether or not the flow has resolved.
Timeout(f) ==
    /\ Running
    /\ timerArmed[f]
    /\ timerArmed' = [timerArmed EXCEPT ![f] = FALSE]
    /\ CloseAndResolve(f, "false")
    /\ UNCHANGED <<batch, psVars, videoVars, now, tokenFile, creds, crashed, started, sent, inflight, status, hung,
                   gacVars, hvcVars, xcVars>>

\* exchangeCode(code) up to its await.
XcCall ==
    /\ Running
    /\ xcPc = "idle"
    /\ xcPc' = "exchanging"
    /\ xcResult' = "none"
    /\ UNCHANGED <<batch, psVars, videoVars, now, tokenFile, creds, crashed, flowVars, gacVars, hvcVars>>

\* getToken(code) resolved in exchangeCode: setCredentials, saveToken, true.
XcOk(tokens, w) ==
    /\ Running
    /\ xcPc = "exchanging"
    /\ creds' = tokens
    /\ tokenFile' = SaveToken(tokenFile, tokens, w)
    /\ xcPc' = "idle"
    /\ xcResult' = "true"
    /\ hvcRun' = 0
    /\ UNCHANGED <<batch, psVars, videoVars, now, crashed, flowVars, gacVars, hvcResult, hvcPrev>>

\* getToken(code) rejected in exchangeCode: false.
XcFail ==
    /\ Running
    /\ xcPc = "exchanging"
    /\ xcPc' = "idle"
    /\ xcResult' = "false"
    /\ UNCHANGED <<batch, psVars, videoVars, now, tokenFile, creds, crashed, flowVars, gacVars, hvcVars>>

\* ---- PlaylistService without OAuth configuration ----

MaxVideos == 3

\* The operations that call initializeOAuth() outside a try block that
\* swallows its error, directly or through getAuthenticatedYoutube().
ThrowingOps == {"getAuthUrl", "startAuthFlow", "exchangeCode", "createPlaylist", "addToPlaylist"}

\* getAuthUrl, startAuthFlow, exchangeCode, createPlaylist, addToPlaylist:
\* initializeOAuth() throws before an OAuthService exists.
PsConfigError(op) ==
    /\ ~crashed
    /\ ~IsOAuthConfigured
    /\ psOp' = op
    /\ psVideos' = 0
    /\ psResult' = "configError"
    /\ psFailed' = 0
    /\ UNCHANGED <<batch, configured, now, tokenFile, creds, crashed, flowVars, gacVars, hvcVars, xcVars, videoVars>>

\* hasValidCredentials() of the PlaylistService: the throw is caught.
PsHasValidCredentials ==
    /\ ~crashed
    /\ ~IsOAuthConfigured
    /\ psOp' = "hasValidCredentials"
    /\ psVideos' = 0
    /\ psResult' = "false"
    /\ psFailed' = 0
    /\ UNCHANGED <<batch, configured, now, tokenFile, creds, crashed, flowVars, gacVars, hvcVars, xcVars, videoVars>>

\* addVideosToPlaylist(): every addToPlaylist() of the loop throws, every
\* error is caught and recorded, and the results are returned.
PsAddVideos(n) ==
    /\ ~crashed
    /\ ~IsOAuthConfigured
    /\ psOp' = "addVideosToPlaylist"
    /\ psVideos' = n
    /\ psResult' = "returned"
    /\ psFailed' = n
    /\ UNCHANGED <<batch, configured, now, tokenFile, creds, crashed, flowVars, gacVars, hvcVars, xcVars, videoVars>>

\* ---- VideoService ----

MaxItems == 4
VideoIds == {"v1", "v2", "v3"}
WatchPrefix == "https://www.youtube.com/watch?v="

\* JavaScript values an `id` can be: undefined, a string, or the object
\* { kind, videoId } of a search result.
Undefined == [kind |-> "undefined", val |-> "none"]
Str(s) == [kind |-> "string", val |-> s]
Obj(s) == [kind |-> "object", val |-> s]

Truthy(x) == x.kind = "object" \/ (x.kind = "string" /\ x.val # "")

\* x?.videoId
OptVideoId(x) == IF x.kind = "object" THEN Str(x.val) ELSE Undefined

\* `${x}`
TemplateString(x) ==
    CASE x.kind = "object" -> "[object Object]"
      [] x.kind = "string" -> x.val
      [] OTHER -> "undefined"

NoUrl == [kind |-> "null", prefix |-> "none", suffix |-> "none"]
Url(suffix) == [kind |-> "url", prefix |-> WatchPrefix, suffix |-> suffix]

NoItem == [kind |-> "null", id |-> Undefined]
Item(id) == [kind |-> "item", id |-> id]
NoVideo == [kind |-> "null", id |-> Undefined, url |-> NoUrl, videoId |-> Undefined]

\* What videos.list returns for one id, and what search.list returns.
VideoItems == {Item(Str(v)) : v \in VideoIds}
SearchItems == {Item(Obj(v)) : v \in VideoIds}

CreateStructuredVideo(v) ==
    IF v = NoItem
      THEN NoVideo
      ELSE LET videoId == IF Truthy(v.id) THEN v.id ELSE OptVideoId(v.id)
               url == IF Truthy(videoId) THEN Url(TemplateString(videoId)) ELSE NoUrl
           IN [kind |-> "video", id |-> v.id, url |-> url, videoId |-> videoId]

RECURSIVE FilterBoolean(_)
FilterBoolean(vs) ==
    IF vs = << >> THEN << >>
    ELSE IF Head(vs) = NoVideo THEN FilterBoolean(Tail(vs))
    ELSE <<Head(vs)>> \o FilterBoolean(Tail(vs))

CreateStructuredVideos(videos) ==
    FilterBoolean([i \in 1..Len(videos) |-> CreateStructuredVideo(videos[i])])

RECURSIVE SeqsUpTo(_, _)
SeqsUpTo(S, n) ==
    IF n = 0 THEN {<< >>}
    ELSE LET shorter == SeqsUpTo(S, n - 1)
         IN shorter \cup {Append(q, x) : q \in {r \in shorter : Len(r) = n - 1}, x \in S}

\* getVideo(): items?.[0] || null, then createStructuredVideo.
GetVideo(items) ==
    /\ ~crashed
    /\ vsOp' = "get"
    /\ vsIn' = items
    /\ vsOut' = <<CreateStructuredVideo(IF items = << >> THEN NoItem ELSE Head(items))>>
    /\ UNCHANGED <<batch, now, tokenFile, creds, crashed, flowVars, gacVars, hvcVars, xcVars, psVars>>

\* searchVideos(): items || [], then createStructuredVideos.
SearchVideos(items) ==
    /\ ~crashed
    /\ vsOp' = "search"
    /\ vsIn' = items
    /\ vsOut' = CreateStructuredVideos(items)
    /\ UNCHANGED <<batch, now, tokenFile, creds, crashed, flowVars, gacVars, hvcVars, xcVars, psVars>>

\* The API call of either operation rejects: the error is rethrown.
VideoApiError(op) ==
    /\ ~crashed
    /\ vsOp' = op
    /\ vsIn' = << >>
    /\ vsOut' = << >>
    /\ UNCHANGED <<batch, now, tokenFile, creds, crashed, flowVars, gacVars, hvcVars, xcVars, psVars>>

\* ---- addVideosToPlaylist ----

\* How one addToPlaylist() call of the loop can end: it returns, or it throws
\* because getAuthenticatedClient() gave null or because the insert failed.
InsertOutcomes == {"ok", "notAuthenticated", "apiError"}

\* A loop body without the try/catch: the first failure leaves the loop and
\* the operation as a thrown error.
LoopBodyRethrows(b, videoId, o) ==
    IF o = "ok"
      THEN [b EXCEPT !.outcomes = Append(@, o),
                     !.success = Append(@, videoId),
                     !.pc = IF Len(b.outcomes) + 1 = Len(b.ids) THEN "done" ELSE "loop"]
      ELSE [b EXCEPT !.outcomes = Append(@, o), !.pc = "thrown"]

\* One pass of the loop body for videoId with the given outcome of its
\* addToPlaylist() call, followed by `return results` after the last one.
LoopBody(b, videoId, o) ==
    LET done == Len(b.outcomes) + 1 = Len(b.ids)
    IN [b EXCEPT !.outcomes = Append(@, o),
                 !.success = IF o = "ok" THEN Append(@, videoId) ELSE @,
                 !.failed = IF o = "ok" THEN @
                            ELSE Append(@, [videoId |-> videoId, error |-> o]),
                 !.pc = IF done THEN "done" ELSE "loop"]

\* addVideosToPlaylist({playlistId, videoIds}) up to its first await, or to
\* its return when videoIds is empty.
AvCall(ids) ==
    /\ Running
    /\ batch.pc # "loop"
    /\ batch' = [pc |-> IF ids = << >> THEN "done" ELSE "loop", ids |-> ids,
                 outcomes |-> << >>, success |-> << >>, failed |-> << >>]
    /\ UNCHANGED <<now, tokenFile, creds, crashed, flowVars, gacVars, hvcVars, xcVars, psVars, videoVars>>

\* The awaited addToPlaylist() of the current videoId settles.
AvStep(o) ==
    /\ Running
    /\ batch.pc = "loop"
    /\ batch' = LoopBody(batch, batch.ids[Len(batch.outcomes) + 1], o)
    /\ UNCHANGED <<now, tokenFile, creds, crashed, flowVars, gacVars, hvcVars, xcVars, psVars, videoVars>>

\* ---- Specifications ----

\* The operations on the persisted record: the clock, hasValidCredentials,
\* getAuthenticatedClient, exchangeCode.
TokenNext ==
    \/ Tick
    \/ HasValidCredentials
    \/ GacCall
    \/ \E a \in AccessTokens, w \in WriteOutcomes : GacRefreshOk(a, w)
    \/ GacRefreshFail
    \/ XcCall
    \/ \E tokens \in CodeResponses, w \in WriteOutcomes : XcOk(tokens, w)
    \/ XcFail

\* The browser authorization flows: authenticateWithBrowser, the requests its
\* listener receives, the exchanges its handler makes and its timer.
AuthNext ==
    \/ \E f \in Flows : StartAuth(f)
    \/ \E f \in Flows : StartAuthBindFail(f)
    \/ \E f \in Flows : RequestOtherPath(f)
    \/ \E f \in Flows : CallbackNoCode(f)
    \/ \E f \in Flows : CallbackWithCode(f)
    \/ \E f \in Flows, tokens \in CodeResponses, w \in WriteOutcomes : ExchangeOk(f, tokens, w)
    \/ \E f \in Flows : ExchangeFail(f)
    \/ \E f \in Flows : Timeout(f)

\* The PlaylistService operations when the OAuth configuration is missing.
PsNext ==
    \/ \E op \in ThrowingOps : PsConfigError(op)
    \/ PsHasValidCredentials
    \/ \E n \in 0..MaxVideos : PsAddVideos(n)

\* The exchangeCode() call.
XcNext ==
    \/ XcCall
    \/ \E tokens \in CodeResponses, w \in WriteOutcomes : XcOk(tokens, w)
    \/ XcFail

\* The VideoService operations that build structured videos.
VideoNext ==
    \/ \E items \in SeqsUpTo(VideoItems, 1) : GetVideo(items)
    \/ \E items \in SeqsUpTo(SearchItems, MaxItems) : SearchVideos(items)
    \/ \E op \in {"getError", "searchError"} : VideoApiError(op)

\* The addVideosToPlaylist() call with OAuth configured.
BatchNext ==
    \/ \E ids \in SeqsUpTo(VideoIds, MaxVideos) : AvCall(ids)
    \/ \E o \in InsertOutcomes : AvStep(o)

Next == TokenNext \/ AuthNext \/ PsNext \/ VideoNext \/ BatchNext

\* The whole program.
Spec == Init /\ [][Next]_vars

\* The program when only the operations on the persisted record are invoked.
TokenSpec == Init /\ [][TokenNext]_vars

\* The program when only browser authorization flows are run.
AuthInit == Init /\ tokenFile \in AuthInitFiles
AuthSpec == AuthInit /\ [][AuthNext]_vars

\* The timers of a live process fire.
AuthFairSpec == AuthSpec /\ \A f \in Flows : WF_vars(Timeout(f))

\* The program with or without OAuth configuration: with it, credential
\* checks, code exchanges and browser flows that no browser answers; without
\* it, the PlaylistService operations.
ConfigInitFiles == {Missing, FileOf("json", "A1", "R1", 1)}
ConfigInit == Init /\ tokenFile \in ConfigInitFiles
ConfigNext ==
    \/ HasValidCredentials
    \/ XcNext
    \/ \E f \in Flows : StartAuth(f)
    \/ \E f \in Flows : Timeout(f)
    \/ PsNext
ConfigSpec == ConfigInit /\ [][ConfigNext]_vars

\* The program when only videos are fetched and searched.
VideoInit == Init /\ tokenFile = Missing /\ configured
VideoSpec == VideoInit /\ [][VideoNext]_vars

\* The program when only videos are added to playlists in batches.
BatchInit == Init /\ tokenFile = Missing /\ configured
BatchSpec == BatchInit /\ [][BatchNext]_vars

\* ------------------------------------------------------------- claims

Resolved(f) == result[f] \in {"true", "false"}

\* The listen(8888) of flow f failed: the flow was started, its server is
\* not listening and was never closed.
BindFailed(f) == started[f] /\ ~listening[f] /\ closes[f] = 0

\* C1 (as claimed): when a getAuthenticatedClient() call that loaded a record
\* with refresh token R completes a successful refresh and the write of the
\* refreshed record succeeds, the record on disk has refresh token R.
C1_RefreshPreservesRefreshToken ==
    [][\A a \in AccessTokens :
          GacRefreshOk(a, "ok")
              => tokenFile'.kind = "json" /\ tokenFile'.rt = gacLoaded.rt]_vars

C3_ListenerTornDown ==
    \A f \in Flows : Resolved(f) => ~listening[f] /\ port # f

\* Flows resolved on each terminal path: a successful callback, a callback
\* without code, and the timer with no callback at all.
C3_Witness ==
    /\ result[1] = "true" /\ status[1] = 200
    /\ ~listening[1]
    /\ result[2] = "false" /\ sent[2] = 0 /\ ~listening[2]
    /\ port = 0

\* C4: once the promise of a flow is settled, no later event changes its value.
C4_ResolvedOnce ==
    [][\A f \in Flows : Resolved(f) => result'[f] = result[f]]_vars

\* The timer settled the flow false and an exchange completed afterwards
\* with 200 and resolve(true), which changed nothing.
C4_Witness ==
    \E f \in Flows :
        result[f] = "false" /\ status[f] = 200 /\ ~timerArmed[f] /\ closes[f] >= 2

\* C5 (as claimed): a call whose bind failed is resolved false and the
\* process survives it, so that the flow that holds the port can go on.
C5_ReentrantRejected ==
    \A f \in Flows :
        BindFailed(f) => result[f] = "false" /\ ~crashed

\* C6 (as claimed): when the exchange of a callback's code succeeds, the
\* record it returned is on disk, the response is 200, the listener is closed
\* and the flow is resolved true.
C6_CallbackSuccess ==
    [][\A f \in Flows, tokens \in CodeResponses, w \in WriteOutcomes :
          ExchangeOk(f, tokens, w)
              => /\ tokenFile' = Stringify(tokens)
                 /\ status'[f] = 200
                 /\ ~listening'[f]
                 /\ result'[f] = "true"]_vars

\* C7: a /callback request without a code is answered 400, closes the
\* listener, resolves the flow false, sends nothing to the identity provider
\* and leaves the token file as it is.
C7_MissingCode ==
    [][\A f \in Flows :
          CallbackNoCode(f)
              => /\ status'[f] = 400
                 /\ ~listening'[f] /\ port' # f
                 /\ result'[f] = "false"
                 /\ sent' = sent /\ inflight' = inflight
                 /\ tokenFile' = tokenFile /\ creds' = creds]_vars

\* A flow ended by a callback without code, with no exchange ever sent.
C7_Witness ==
    \E f \in Flows :
        status[f] = 400 /\ result[f] = "false" /\ sent[f] = 0 /\ ~listening[f]

\* C8 (as claimed): when the exchange of a callback's code fails, the
\* response is 500, the listener is closed, the flow is resolved false and
\* the token file is the one found when the flow started.
C8_ExchangeFailure ==
    [][\A f \in Flows :
          ExchangeFail(f)
              => /\ status'[f] = 500
                 /\ ~listening'[f]
                 /\ result'[f] = "false"
                 /\ tokenFile' = tokenFile]_vars

\* C9 (as claimed): every started flow eventually resolves.
C9_EventuallyResolved ==
    \A f \in Flows : started[f] ~> Resolved(f)

\* C10: with the token file missing, unreadable or unparsable,
\* hasValidCredentials() returns false and getAuthenticatedClient() returns
\* null without a refresh, and the process survives both.
C10_CorruptFileRecovery ==
    [][tokenFile.kind \in {"missing", "unreadable", "corrupt"}
          => /\ HasValidCredentials => hvcResult' = "false" /\ ~crashed'
             /\ GacCall => gacResult' = "null" /\ gacPc' = "idle" /\ ~crashed'
                           /\ tokenFile' = tokenFile]_vars

\* Both operations have answered over an unparsable file.
C10_Witness ==
    /\ tokenFile.kind = "corrupt"
    /\ hvcResult = "false"
    /\ gacResult = "null" /\ gacLoaded = Null /\ gacNow = now
    /\ ~crashed

\* C11: two hasValidCredentials() calls with no saveToken() between them
\* return the same, and no hasValidCredentials() call changes the token file.
C11_IdempotentLoad ==
    /\ [](hvcRun = 2 => hvcResult = hvcPrev)
    /\ [][HasValidCredentials => tokenFile' = tokenFile]_vars

\* Two calls in a row over a record, both answered true.
C11_Witness ==
    hvcRun = 2 /\ hvcPrev = "true" /\ hvcResult = "true" /\ tokenFile.kind = "json"

\* C12: hasValidCredentials() returns true for every record that exists and
\* parses, whatever its expiry.
C12_NoExpiryCheck ==
    [][HasValidCredentials /\ tokenFile.kind = "json" => hvcResult' = "true"]_vars

\* hasValidCredentials() said true over a record that getAuthenticatedClient()
\* found expired and could not refresh: it returned null, and the record is
\* still the one on disk.
C12_Witness ==
    /\ hvcResult = "true" /\ hvcRun >= 1
    /\ gacPc = "idle" /\ gacResult = "null"
    /\ gacLoaded.kind = "token" /\ Expired(gacLoaded, gacNow)
    /\ tokenFile = Stringify(gacLoaded)

\* C13: a getAuthenticatedClient() call that finds no record returns null; one
\* that finds a record with no expiry or an expiry in the future returns the
\* client bound to that record; neither starts a refresh nor writes the file.
C13_NonRefreshingPaths ==
    [][GacCall
          => /\ tokenFile.kind # "json"
                  => gacResult' = "null" /\ gacPc' = "idle"
                     /\ tokenFile' = tokenFile /\ creds' = creds
             /\ (tokenFile.kind = "json" /\ (tokenFile.exp = NoExpiry \/ tokenFile.exp > now))
                  => gacResult' = "client" /\ gacPc' = "idle"
                     /\ tokenFile' = tokenFile /\ creds' = LoadToken(tokenFile)]_vars

\* A call has returned a client over a record that expires later.
C13_Witness ==
    /\ gacPc = "idle" /\ gacResult = "client"
    /\ gacLoaded.kind = "token" /\ gacLoaded.exp > gacNow
    /\ creds = gacLoaded /\ tokenFile = Stringify(gacLoaded)

\* C14: when the refresh fails, getAuthenticatedClient() returns null, the
\* process survives and the call leaves the token file as it is.
C14_RefreshFailure ==
    /\ [][GacRefreshFail
             => gacResult' = "null" /\ gacPc' = "idle" /\ ~crashed'
                /\ tokenFile' = tokenFile]_vars
    /\ [][GacCall => tokenFile' = tokenFile]_vars

\* A call returned null after a refresh of an expired record that is still
\* the one on disk.
C14_Witness ==
    /\ gacPc = "idle" /\ gacResult = "null"
    /\ gacLoaded.kind = "token" /\ gacLoaded.exp < gacNow
    /\ tokenFile = Stringify(gacLoaded)

\* C15 (as claimed): when the refresh succeeds, getAuthenticatedClient()
\* returns the client bound to the refreshed token, and at that moment the
\* token file holds the new access token and the new expiry.
C15_RefreshSuccess ==
    [][\A a \in AccessTokens, w \in WriteOutcomes :
          GacRefreshOk(a, w)
              => /\ gacResult' = "client"
                 /\ creds'.at = a /\ creds'.exp = now + Lifetime
                 /\ tokenFile'.kind = "json"
                 /\ tokenFile'.at = a /\ tokenFile'.exp = now + Lifetime]_vars

\* C16 (as claimed): when exchangeCode() returns true, the token file holds
\* exactly what the provider returned, so that hasValidCredentials() is true,
\* and no listener was bound.
C16_ExchangeOnly ==
    [][\A tokens \in CodeResponses, w \in WriteOutcomes :
          XcOk(tokens, w)
              => /\ xcResult' = "true"
                 /\ tokenFile' = Stringify(tokens)
                 /\ LoadToken(tokenFile') # Null
                 /\ listening' = listening /\ port' = port]_vars

\* C17 (as claimed): no error escapes an operation: the process never dies
\* of an uncaught exception.
C17_NothingEscapes ==
    crashed = FALSE

\* C18 (as claimed): whenever the token file changes, it becomes the complete
\* record of one saveToken() call; a failed write leaves it as it was.
C18_WholeRecord ==
    [][tokenFile' # tokenFile => tokenFile'.kind = "json"]_vars

\* C19 (as claimed): every result of searchVideos carries the video ID string
\* of its item in videoId and the watch URL of that ID in url, as the results
\* of getVideo do.
C19_SearchResultsHaveUrls ==
    vsOp = "search"
        => /\ Len(vsOut) = Len(vsIn)
           /\ \A i \in 1..Len(vsOut) :
                 /\ vsOut[i].videoId = Str(vsIn[i].id.val)
                 /\ vsOut[i].url = Url(vsIn[i].id.val)

\* The operations that start a flow or write.
FlowAndWriteOps == ThrowingOps \cup {"addVideosToPlaylist"}

\* No identity-provider call, no listener, no credentials and no flow exists.
NothingProceeded ==
    /\ port = 0 /\ creds = EmptyCreds
    /\ gacPc = "idle" /\ xcPc = "idle" /\ TotalSent = 0
    /\ \A f \in Flows : ~started[f] /\ ~listening[f] /\ inflight[f] = 0

\* C20 (as claimed): without client id or secret, every flow and write
\* operation ends in a configuration error.
C20_EveryOperationFails ==
    ~configured /\ psOp \in FlowAndWriteOps => psResult = "configError"

\* C20 (amended): without client id or secret nothing proceeds and the token
\* file is never touched; getAuthUrl, startAuthFlow, exchangeCode,
\* createPlaylist and addToPlaylist end in a configuration error,
\* hasValidCredentials reports false, and addVideosToPlaylist returns with
\* every video it was given listed as failed.
C20_ConfigErrorBeforeAnyFlow ==
    /\ [](~configured => NothingProceeded)
    /\ [][~configured => tokenFile' = tokenFile]_vars
    /\ [](~configured
            => /\ psOp \in ThrowingOps => psResult = "configError"
               /\ psOp = "hasValidCredentials" => psResult = "false"
               /\ psOp = "addVideosToPlaylist"
                     => psResult = "returned" /\ psFailed = psVideos)

\* startAuthFlow was called without configuration and ended in the
\* configuration error, with port 8888 free.
C20_Witness ==
    /\ ~configured /\ psOp = "startAuthFlow" /\ psResult = "configError"
    /\ port = 0 /\ \A f \in Flows : ~started[f]

\* C21: the listener of a flow stops listening once, at the first
\* server.close() of the flow, whether the timer or a handler makes it (also
\* when the timer fires while a handler is suspended in the exchange); it
\* never listens again, and a later server.close() of the same flow changes
\* neither a listener nor the holder of the port.
C21_TeardownOnce ==
    [][\A f \in Flows :
          /\ listening[f] /\ closes'[f] > closes[f]
                => closes[f] = 0 /\ ~listening'[f] /\ port' = 0
          /\ listening[f] /\ ~listening'[f] => closes[f] = 0 /\ closes'[f] = 1
          /\ closes[f] >= 1 => ~listening'[f]
          /\ closes[f] >= 1 /\ closes'[f] > closes[f]
                => listening' = listening /\ port' = port]_vars

\* The timer of a flow fired while its handler was suspended in the exchange,
\* the exchange then completed and closed again, while a later flow was
\* listening on the port.
C21_Witness ==
    \E f, g \in Flows :
        /\ f # g /\ closes[f] = 2 /\ sent[f] = 1 /\ inflight[f] = 0
        /\ ~timerArmed[f] /\ status[f] = 200 /\ result[f] = "false"
        /\ listening[g] /\ port = g

\* C22 (as claimed): the handler of a flow sends at most one code exchange to
\* the identity provider.
C22_SingleShot ==
    \A f \in Flows : sent[f] <= 1

\* C23 (as claimed): an exchange that completes in a flow already resolved
\* false does not write the token file.
C23_NoWriteAfterFalse ==
    [][\A f \in Flows, tokens \in CodeResponses, w \in WriteOutcomes :
          ExchangeOk(f, tokens, w) /\ result[f] = "false"
              => tokenFile' = tokenFile]_vars

\* C24: a request on a path other than /callback leaves the flow unresolved,
\* the listener open, the exchanges as they are and the token file unchanged.
C24_OtherPathChangesNothing ==
    [][\A f \in Flows :
          RequestOtherPath(f)
              => /\ result' = result /\ listening' = listening /\ port' = port
                 /\ closes' = closes /\ status' = status
                 /\ sent' = sent /\ inflight' = inflight
                 /\ tokenFile' = tokenFile /\ creds' = creds]_vars

\* A request on another path was received and the flow is still pending with
\* its listener open.
C24_Witness ==
    \E f \in Flows :
        hung >= 1 /\ listening[f] /\ port = f /\ result[f] = "pending" /\ closes[f] = 0

\* The video IDs at the positions of ids whose insertion ended ok (or, with
\* ok = FALSE, did not), in input order.
RECURSIVE IdsWhere(_, _, _)
IdsWhere(ids, outcomes, ok) ==
    IF ids = << >> THEN << >>
    ELSE IF (Head(outcomes) = "ok") = ok
           THEN <<Head(ids)>> \o IdsWhere(Tail(ids), Tail(outcomes), ok)
           ELSE IdsWhere(Tail(ids), Tail(outcomes), ok)

\* C25: addVideosToPlaylist never throws, attempts every position whatever
\* the earlier insertions did, and returns in `success` the IDs of the
\* positions that were inserted and in `failed` those of the others, each in
\* input order, every position in exactly one of the two.
C25_Partition ==
    /\ batch.pc \in {"idle", "loop", "done"}
    /\ batch.pc = "done"
          => /\ Len(batch.outcomes) = Len(batch.ids)
             /\ Len(batch.success) + Len(batch.failed) = Len(batch.ids)
             /\ batch.success = IdsWhere(batch.ids, batch.outcomes, TRUE)
             /\ [i \in 1..Len(batch.failed) |-> batch.failed[i].videoId]
                    = IdsWhere(batch.ids, batch.outcomes, FALSE)

\* A batch of three has returned: its first insertion failed for want of
\* authentication, the later ones were still made and one succeeded.
C25_Witness ==
    /\ batch.pc = "done" /\ Len(batch.ids) = 3
    /\ batch.outcomes[1] = "notAuthenticated"
    /\ Len(batch.success) >= 1 /\ Len(batch.failed) >= 2
    /\ batch.ids[1] = batch.ids[3] /\ batch.outcomes[3] = "ok"

====
